---------------------------- MODULE Spec2Model ----------------------------
(***************************************************************************)
(* Model of VideoProcessingAgent                                           *)
(* (examples/search_agent/src/search_agent/search_agent.py).               *)
(*                                                                         *)
(* Three specifications share the state:                                   *)
(*   Spec           the constructor, then concurrent assist invocations    *)
(*                  (one per session) against a speech service that        *)
(*                  answers from a small set of canned responses;          *)
(*   SpecTranscribe one assist invocation against a speech service that    *)
(*                  may answer with any bounded result sequence;           *)
(*   SpecSummarize  a caller that iterates summarize_text directly.        *)
(*                                                                         *)
(* Python strings that the code inspects character by character            *)
(* (transcripts, the prompt) are sequences of one-character strings;       *)
(* labels and messages, which are only passed along, are TLA+ strings.     *)
(***************************************************************************)
EXTENDS Integers, Sequences, FiniteSets, TLC

(***************************************************************************)
(* Bounds of the model.                                                    *)
(***************************************************************************)
NumSessions == 2
MaxResults == 2
MaxAlts == 2
MaxLen == 1
MaxFragments == 2
MaxCalls == 2

Sessions == 1..NumSessions

(***************************************************************************)
(* Python values.                                                          *)
(***************************************************************************)
None == "<None>"
Absent == "<absent>"
NoPath == 0
NoExc == ""

EnvKeys == {"MODEL_API_KEY", "TAVILY_API_KEY", "GOOGLE_CLOUD_SPEECH_API_KEY"}
\* os.getenv gives None for an unset variable; a variable may also be set to "".
EnvValues == {None, "", "k"}

\* A mutant of Falsy: `x is None` instead of `not x`.
IsNone(x) == x = None

\* `not x` for the values an environment variable or an attachment can take.
Falsy(x) == x = None \/ x = ""

(***************************************************************************)
(* Queries: the attachments mapping, as a function over the keys used,     *)
(* Absent marking a key the mapping does not hold.                         *)
(***************************************************************************)
AttachmentKeys == {"mp4_file", "notes"}
Mp4Values == {Absent, "", "a.mp4", "b.mp4"}
Queries ==
    { [attachments |-> [k \in AttachmentKeys |-> IF k = "mp4_file" THEN m ELSE n]] :
        m \in Mp4Values, n \in {Absent, "n.txt"} }
NoQuery == [attachments |-> [k \in AttachmentKeys |-> Absent]]

\* dict.get(key): the value, or None when the key is absent.
Get(attachments, key) ==
    IF attachments[key] = Absent THEN None ELSE attachments[key]

(***************************************************************************)
(* Text as sequences of characters.                                        *)
(***************************************************************************)
Chars == {"a", "b"}
NL == "\n"

RECURSIVE SeqsUpTo(_, _)
SeqsUpTo(S, n) ==
    IF n = 0 THEN { <<>> }
    ELSE LET shorter == SeqsUpTo(S, n - 1)
         IN  shorter \cup { Append(x, c) : x \in shorter, c \in S }

Transcripts == SeqsUpTo(Chars, MaxLen)

\* A lower-ranked alternative of a recognition result: never a transcript the
\* service ranks first, so that picking the wrong alternative shows.
Decoy == <<"x">>

\* One recognition result: its ranked alternatives, the top one first.
ResultsOfService ==
    { [alternatives |-> <<[transcript |-> t]>>
                         \o [i \in 1..k |-> [transcript |-> Decoy]]] :
        t \in Transcripts, k \in 0..(MaxAlts - 1) }

\* response.results: every result sequence within the bounds.
AllResponses == SeqsUpTo(ResultsOfService, MaxResults)

\* The canned responses of the speech service under Spec.
StubResponses ==
    { <<>>,
      <<[alternatives |-> <<[transcript |-> <<"a">>]>>]>>,
      <<[alternatives |-> <<[transcript |-> <<"a">>], [transcript |-> Decoy]>>],
        [alternatives |-> <<[transcript |-> <<"b">>]>>]>> }

\* "\n".join(strs)
RECURSIVE JoinNewline(_)
JoinNewline(strs) ==
    IF strs = <<>> THEN <<>>
    ELSE IF Len(strs) = 1 THEN strs[1]
    ELSE strs[1] \o <<NL>> \o JoinNewline(Tail(strs))

\* A mutant of TranscriptOf: a separator after every transcript.
RECURSIVE JoinTrailing(_)
JoinTrailing(strs) ==
    IF strs = <<>> THEN <<>>
    ELSE strs[1] \o <<NL>> \o JoinTrailing(Tail(strs))

TranscriptOfTrailing(results) ==
    JoinTrailing([i \in 1..Len(results) |-> results[i].alternatives[1].transcript])

\* "\n".join([result.alternatives[0].transcript for result in response.results])
TranscriptOf(results) ==
    JoinNewline([i \in 1..Len(results) |-> results[i].alternatives[1].transcript])

\* f"Summarize the following text: {text}"
PromptPrefix ==
    << "S","u","m","m","a","r","i","z","e"," ","t","h","e"," ",
       "f","o","l","l","o","w","i","n","g"," ","t","e","x","t",":"," " >>
SummaryQuery(text) == PromptPrefix \o text

\* What the model provider may stream for one query: any bounded fragment sequence.
Fragments == {"A", "B"}
FragmentStreams == SeqsUpTo(Fragments, MaxFragments)

(***************************************************************************)
(* Response blocks.                                                        *)
(***************************************************************************)
TextBlock(label, text) == [kind |-> "text", label |-> label, body |-> text]
Complete == [kind |-> "complete", label |-> "", body |-> ""]
ErrorBlock == TextBlock("ERROR", "No MP4 file provided.")
ProcessingBlock == TextBlock("PROCESSING", "Processing MP4 file...")

(***************************************************************************)
(* The file system of temporary files: a function from names (positive     *)
(* numbers) to contents (byte sequences).                                  *)
(***************************************************************************)
\* A mutant of TempName: one fixed name for every temporary file.
FixedTempName(files) == 1

\* tempfile.NamedTemporaryFile: a name no existing file has.
TempName(files) == CHOOSE n \in 1..(Cardinality(DOMAIN files) + 1) : n \notin DOMAIN files

\* A mutant of convert_mp4_to_audio: the extraction writes audio taken from the video.
convert_writes_audio(files, mp4, path) ==
    [files EXCEPT ![path] = IF mp4 = "a.mp4" THEN <<1>> ELSE <<2>>]

\* convert_mp4_to_audio: `pass`; the output file is left as it is.
convert_mp4_to_audio(files, mp4, path) == files

VARIABLES
    env,            \* the process environment: EnvKeys -> EnvValues
    ctor_pc,        \* position of __init__
    ctor_error,     \* the ValueError message __init__ raised, or NoExc
    clients,        \* the clients __init__ has created, in order of creation
    pc,             \* position of each session's assist invocation
    query,          \* each session's query (its attachments)
    events,         \* what each session's response handler has received
    mp4_file,       \* local of assist
    audio_path,     \* local of transcribe_video
    audio_content,  \* local of transcribe_video
    response,       \* local of transcribe_video: response.results
    transcription,  \* local of assist
    exc,            \* the exception that left assist, or NoExc
    fs,             \* temporary files
    speechCalls,    \* requests received by the speech service
    modelCalls,     \* prompts received by the model provider's query_stream
    gen_pc,         \* the async generator made by summarize_text
    gen_text,       \* its argument
    stream,         \* fragments the model provider has yet to stream to it
    streamed,       \* all fragments the model provider streams for it
    yielded,        \* fragments it has yielded to its caller
    calls,          \* number of summarize_text calls made by the caller
    started         \* number of generators whose body has started

ctorVars == <<env, ctor_pc, ctor_error, clients>>
assistVars == <<pc, query, events, mp4_file, audio_path, audio_content,
                response, transcription, exc>>
serviceVars == <<fs, speechCalls>>
genVars == <<gen_pc, gen_text, stream, streamed, yielded, calls, started>>
vars == <<ctorVars, assistVars, serviceVars, modelCalls, genVars>>

(***************************************************************************)
(* Initial states.                                                         *)
(***************************************************************************)
InitSessions ==
    /\ pc = [s \in Sessions |-> "idle"]
    /\ query = [s \in Sessions |-> NoQuery]
    /\ events = [s \in Sessions |-> <<>>]
    /\ mp4_file = [s \in Sessions |-> None]
    /\ audio_path = [s \in Sessions |-> NoPath]
    /\ audio_content = [s \in Sessions |-> <<>>]
    /\ response = [s \in Sessions |-> <<>>]
    /\ transcription = [s \in Sessions |-> <<>>]
    /\ exc = [s \in Sessions |-> NoExc]
    /\ fs = <<>>
    /\ speechCalls = <<>>
    /\ modelCalls = <<>>

InitGen ==
    /\ gen_pc = "none"
    /\ gen_text = <<>>
    /\ stream = <<>>
    /\ streamed = <<>>
    /\ yielded = <<>>
    /\ calls = 0
    /\ started = 0

\* Before __init__ runs, in any environment.
Init ==
    /\ env \in [EnvKeys -> EnvValues]
    /\ ctor_pc = "model"
    /\ ctor_error = NoExc
    /\ clients = <<>>
    /\ InitSessions
    /\ InitGen

\* After __init__ has returned: every variable was set.
InitServing ==
    /\ env = [k \in EnvKeys |-> "k"]
    /\ ctor_pc = "done"
    /\ ctor_error = NoExc
    /\ clients = <<"ModelProvider", "SearchProvider", "SpeechClient">>
    /\ InitSessions
    /\ InitGen

(***************************************************************************)
(* __init__ (lines 21-37): three times, read a variable, raise if it is    *)
(* not set, else create the client.                                        *)
(***************************************************************************)
\* A mutant of CtorStep: the client is created before its variable is tested.
CtorStepEager(at, key, client, next) ==
    /\ ctor_pc = at
    /\ clients' = Append(clients, client)
    /\ IF Falsy(env[key])
       THEN /\ ctor_pc' = "raised"
            /\ ctor_error' = key \o " is not set"
       ELSE /\ ctor_pc' = next
            /\ UNCHANGED ctor_error
    /\ UNCHANGED <<env, assistVars, serviceVars, modelCalls, genVars>>

CtorStep(at, key, client, next) ==
    /\ ctor_pc = at
    /\ IF Falsy(env[key])
       THEN /\ ctor_pc' = "raised"
            /\ ctor_error' = key \o " is not set"
            /\ UNCHANGED clients
       ELSE /\ ctor_pc' = next
            /\ clients' = Append(clients, client)
            /\ UNCHANGED ctor_error
    /\ UNCHANGED <<env, assistVars, serviceVars, modelCalls, genVars>>

CtorModel == CtorStep("model", "MODEL_API_KEY", "ModelProvider", "search")
CtorSearch == CtorStep("search", "TAVILY_API_KEY", "SearchProvider", "speech")
CtorSpeech == CtorStep("speech", "GOOGLE_CLOUD_SPEECH_API_KEY", "SpeechClient", "done")

(***************************************************************************)
(* The server hands an inbound session and its query to assist.  It serves *)
(* only once the agent has been constructed (lines 100-104).               *)
(***************************************************************************)
Dispatch(s, q) ==
    /\ ctor_pc = "done"
    /\ pc[s] = "idle"
    /\ pc' = [pc EXCEPT ![s] = "assist"]
    /\ query' = [query EXCEPT ![s] = q]
    /\ UNCHANGED <<ctorVars, events, mp4_file, audio_path, audio_content,
                   response, transcription, exc, serviceVars, modelCalls, genVars>>

(***************************************************************************)
(* assist, lines 42-47: look the attachment up; without one, emit ERROR    *)
(* and return; with one, emit PROCESSING.                                  *)
(***************************************************************************)
\* A mutant of AssistError: the `return` after the ERROR block is missing.
AssistErrorNoReturn(s) ==
    /\ pc[s] = "assist"
    /\ Falsy(Get(query[s].attachments, "mp4_file"))
    /\ mp4_file' = [mp4_file EXCEPT ![s] = Get(query[s].attachments, "mp4_file")]
    /\ events' = [events EXCEPT ![s] = Append(Append(@, ErrorBlock), ProcessingBlock)]
    /\ pc' = [pc EXCEPT ![s] = "transcribe"]
    /\ UNCHANGED <<ctorVars, query, audio_path, audio_content, response,
                   transcription, exc, serviceVars, modelCalls, genVars>>

AssistError(s) ==
    /\ pc[s] = "assist"
    /\ Falsy(Get(query[s].attachments, "mp4_file"))
    /\ mp4_file' = [mp4_file EXCEPT ![s] = Get(query[s].attachments, "mp4_file")]
    /\ events' = [events EXCEPT ![s] = Append(@, ErrorBlock)]
    /\ pc' = [pc EXCEPT ![s] = "returned"]
    /\ UNCHANGED <<ctorVars, query, audio_path, audio_content, response,
                   transcription, exc, serviceVars, modelCalls, genVars>>

AssistProcessing(s) ==
    /\ pc[s] = "assist"
    /\ ~Falsy(Get(query[s].attachments, "mp4_file"))
    /\ mp4_file' = [mp4_file EXCEPT ![s] = Get(query[s].attachments, "mp4_file")]
    /\ events' = [events EXCEPT ![s] = Append(@, ProcessingBlock)]
    /\ pc' = [pc EXCEPT ![s] = "transcribe"]
    /\ UNCHANGED <<ctorVars, query, audio_path, audio_content, response,
                   transcription, exc, serviceVars, modelCalls, genVars>>

(***************************************************************************)
(* transcribe_video, lines 63-70: create the temporary file, run the       *)
(* extraction on it, read it back.  Creating the file may fail.            *)
(***************************************************************************)
TranscribeExtract(s) ==
    /\ pc[s] = "transcribe"
    /\ LET path == TempName(fs)
           created == (path :> <<>>) @@ fs
           converted == convert_mp4_to_audio(created, mp4_file[s], path)
       IN  /\ fs' = converted
           /\ audio_path' = [audio_path EXCEPT ![s] = path]
           /\ audio_content' = [audio_content EXCEPT ![s] = converted[path]]
    /\ pc' = [pc EXCEPT ![s] = "recognize"]
    /\ UNCHANGED <<ctorVars, query, events, mp4_file, response, transcription,
                   exc, speechCalls, modelCalls, genVars>>

TranscribeExtractFails(s) ==
    /\ pc[s] = "transcribe"
    /\ pc' = [pc EXCEPT ![s] = "raised"]
    /\ exc' = [exc EXCEPT ![s] = "OSError"]
    /\ UNCHANGED <<ctorVars, query, events, mp4_file, audio_path, audio_content,
                   response, transcription, serviceVars, modelCalls, genVars>>

(***************************************************************************)
(* transcribe_video, lines 72-83: send the audio to the speech service;    *)
(* join the top alternatives of its results and return them to assist      *)
(* (line 50).  The call may fail.                                          *)
(***************************************************************************)
SpeechRequest(s) ==
    [session |-> s, content |-> audio_content[s], encoding |-> "LINEAR16",
     sample_rate_hertz |-> 16000, language_code |-> "en-US"]

TranscribeRecognize(s, responses) ==
    /\ pc[s] = "recognize"
    /\ speechCalls' = Append(speechCalls, SpeechRequest(s))
    /\ \E results \in responses :
        /\ response' = [response EXCEPT ![s] = results]
        /\ transcription' = [transcription EXCEPT ![s] = TranscriptOf(results)]
    /\ pc' = [pc EXCEPT ![s] = "summarize"]
    /\ UNCHANGED <<ctorVars, query, events, mp4_file, audio_path, audio_content,
                   exc, fs, modelCalls, genVars>>

TranscribeRecognizeFails(s) ==
    /\ pc[s] = "recognize"
    /\ speechCalls' = Append(speechCalls, SpeechRequest(s))
    /\ pc' = [pc EXCEPT ![s] = "raised"]
    /\ exc' = [exc EXCEPT ![s] = "GoogleAPICallError"]
    /\ UNCHANGED <<ctorVars, query, events, mp4_file, audio_path, audio_content,
                   response, transcription, fs, modelCalls, genVars>>

(***************************************************************************)
(* assist, line 53: summary = await self.summarize_text(transcription).    *)
(* summarize_text has a `yield` in its body (line 96), so calling it runs  *)
(* none of the body and returns an async generator object; that object has *)
(* no __await__, so the await raises TypeError.  Lines 56-59 are never     *)
(* reached.                                                                *)
(***************************************************************************)
\* What calling summarize_text(text) returns.
summarize_text(text) == [type |-> "async_generator", text |-> text]

\* Whether `await obj` is allowed.
Awaitable(obj) == obj.type \in {"coroutine", "Future", "Task"}

\* A mutant of AssistSummarize: the failure is swallowed and the response completed.
AssistSummarizeSwallow(s) ==
    /\ pc[s] = "summarize"
    /\ pc' = [pc EXCEPT ![s] = "raised"]
    /\ exc' = [exc EXCEPT ![s] = "TypeError"]
    /\ events' = [events EXCEPT ![s] = Append(@, Complete)]
    /\ UNCHANGED <<ctorVars, query, mp4_file, audio_path, audio_content,
                   response, transcription, serviceVars, modelCalls, genVars>>

AssistSummarize(s) ==
    /\ pc[s] = "summarize"
    /\ IF Awaitable(summarize_text(transcription[s]))
       THEN /\ pc' = [pc EXCEPT ![s] = "emit"]
            /\ UNCHANGED exc
       ELSE /\ pc' = [pc EXCEPT ![s] = "raised"]
            /\ exc' = [exc EXCEPT ![s] = "TypeError"]
    /\ UNCHANGED <<ctorVars, query, events, mp4_file, audio_path, audio_content,
                   response, transcription, serviceVars, modelCalls, genVars>>

(***************************************************************************)
(* summarize_text iterated by a caller (lines 92-96).  Calling it makes    *)
(* the generator and runs nothing.  The first __anext__ builds the prompt, *)
(* calls query_stream and pulls the first fragment; every later __anext__  *)
(* resumes after the `yield` and pulls the next one.  When the provider's  *)
(* stream ends the generator ends.                                         *)
(***************************************************************************)
\* A mutant of YieldChunk: the fragment is yielded twice.
YieldTwice(out, chunk) == Append(Append(out, chunk), chunk)

\* yield chunk
YieldChunk(out, chunk) == Append(out, chunk)

GenCall(text) ==
    /\ calls < MaxCalls
    /\ calls' = calls + 1
    /\ gen_pc' = "created"
    /\ gen_text' = summarize_text(text).text
    /\ stream' = <<>>
    /\ streamed' = <<>>
    /\ yielded' = <<>>
    /\ UNCHANGED <<ctorVars, assistVars, serviceVars, modelCalls, started>>

GenFirstNext ==
    /\ gen_pc = "created"
    /\ started' = started + 1
    /\ modelCalls' = Append(modelCalls, [prompt |-> SummaryQuery(gen_text)])
    /\ \E fragments \in FragmentStreams :
        /\ streamed' = fragments
        /\ IF fragments = <<>>
           THEN /\ gen_pc' = "exhausted"
                /\ stream' = <<>>
                /\ UNCHANGED yielded
           ELSE /\ gen_pc' = "suspended"
                /\ stream' = Tail(fragments)
                /\ yielded' = YieldChunk(yielded, Head(fragments))
    /\ UNCHANGED <<ctorVars, assistVars, serviceVars, gen_text, calls>>

GenNext ==
    /\ gen_pc = "suspended"
    /\ IF stream = <<>>
       THEN /\ gen_pc' = "exhausted"
            /\ UNCHANGED <<stream, yielded>>
       ELSE /\ gen_pc' = "suspended"
            /\ stream' = Tail(stream)
            /\ yielded' = YieldChunk(yielded, Head(stream))
    /\ UNCHANGED <<ctorVars, assistVars, serviceVars, modelCalls, gen_text,
                   streamed, calls, started>>

(***************************************************************************)
(* Specifications.                                                         *)
(***************************************************************************)
Next ==
    \/ CtorModel
    \/ CtorSearch
    \/ CtorSpeech
    \/ \E s \in Sessions, q \in Queries : Dispatch(s, q)
    \/ \E s \in Sessions : AssistError(s)
    \/ \E s \in Sessions : AssistProcessing(s)
    \/ \E s \in Sessions : TranscribeExtract(s)
    \/ \E s \in Sessions : TranscribeExtractFails(s)
    \/ \E s \in Sessions : TranscribeRecognize(s, StubResponses)
    \/ \E s \in Sessions : TranscribeRecognizeFails(s)
    \/ \E s \in Sessions : AssistSummarize(s)

Spec == Init /\ [][Next]_vars

NextTranscribe ==
    \/ \E q \in Queries : Dispatch(1, q)
    \/ AssistError(1)
    \/ AssistProcessing(1)
    \/ TranscribeExtract(1)
    \/ TranscribeExtractFails(1)
    \/ TranscribeRecognize(1, AllResponses)
    \/ TranscribeRecognizeFails(1)
    \/ AssistSummarize(1)

SpecTranscribe == InitServing /\ [][NextTranscribe]_vars

NextSummarize ==
    \/ \E text \in Transcripts : GenCall(text)
    \/ GenFirstNext
    \/ GenNext

SpecSummarize == InitServing /\ [][NextSummarize]_vars

(***************************************************************************)
(* Vocabulary of the properties.                                           *)
(***************************************************************************)
Mp4Of(s) == Get(query[s].attachments, "mp4_file")
Finished(s) == pc[s] \in {"returned", "raised"}
ServiceFailures == {"OSError", "GoogleAPICallError"}
Labels(evs) ==
    [i \in 1..Len(evs) |-> IF evs[i].kind = "complete" THEN "complete" ELSE evs[i].label]
CallsOf(s) == { i \in DOMAIN speechCalls : speechCalls[i].session = s }
KeyOrder == <<"MODEL_API_KEY", "TAVILY_API_KEY", "GOOGLE_CLOUD_SPEECH_API_KEY">>
ClientOrder == <<"ModelProvider", "SearchProvider", "SpeechClient">>

\* What a missing attachment must lead to, at every point of the invocation.
OnlyErrorOutcome(s) ==
    /\ pc[s] \in {"assist", "returned"}
    /\ events[s] = IF pc[s] = "returned" THEN <<ErrorBlock>> ELSE <<>>
    /\ exc[s] = NoExc
    /\ audio_path[s] = NoPath
    /\ CallsOf(s) = {}
    /\ modelCalls = <<>>
    /\ Cardinality(DOMAIN fs) = Cardinality({ t \in Sessions : audio_path[t] # NoPath })

(***************************************************************************)
(* C1.  An invocation with an mp4_file attachment that is over, and in     *)
(* which neither the file system nor the speech service failed, has sent   *)
(* its handler PROCESSING, TRANSCRIPTION, SUMMARY and the completion       *)
(* signal, in this order and nothing else.                                 *)
(***************************************************************************)
C1_EmissionOrder ==
    \A s \in Sessions :
        (Finished(s) /\ ~Falsy(Mp4Of(s)) /\ exc[s] \notin ServiceFailures)
            => Labels(events[s]) = <<"PROCESSING", "TRANSCRIPTION", "SUMMARY", "complete">>

(***************************************************************************)
(* C2.  An invocation whose query holds no mp4_file attachment emits the   *)
(* ERROR block and nothing else: no other block, no completion signal, no  *)
(* temporary file, no speech request, no model query.                      *)
(***************************************************************************)
C2_NoAttachmentOnlyError ==
    \A s \in Sessions :
        (pc[s] # "idle" /\ query[s].attachments["mp4_file"] = Absent)
            => OnlyErrorOutcome(s)

C2_Witness ==
    \E s, t \in Sessions :
        /\ pc[s] = "returned"
        /\ query[s].attachments["mp4_file"] = Absent
        /\ events[s] = <<TextBlock("ERROR", "No MP4 file provided.")>>
        /\ CallsOf(t) # {}

(***************************************************************************)
(* C3, as stated.  When __init__ raises its configuration error, no client *)
(* has been created.                                                       *)
(***************************************************************************)
C3_NoClientBeforeError ==
    ctor_pc = "raised" => clients = <<>>

(***************************************************************************)
(* C3, amended.  __init__ raises for the first variable, in the order      *)
(* MODEL_API_KEY, TAVILY_API_KEY, GOOGLE_CLOUD_SPEECH_API_KEY, that is not *)
(* set, before that variable's client and every later one is created and   *)
(* after the clients of the variables before it were created; it returns   *)
(* only if all three are set.                                              *)
(***************************************************************************)
C3_ErrorBeforeOwnClient ==
    /\ ctor_pc = "raised" =>
        \E i \in 1..3 :
            /\ ctor_error = KeyOrder[i] \o " is not set"
            /\ Falsy(env[KeyOrder[i]])
            /\ \A j \in 1..(i - 1) : ~Falsy(env[KeyOrder[j]])
            /\ clients = SubSeq(ClientOrder, 1, i - 1)
    /\ ctor_pc = "done" =>
        /\ \A k \in EnvKeys : ~Falsy(env[k])
        /\ clients = ClientOrder
        /\ ctor_error = NoExc
    /\ (\E s \in Sessions : pc[s] # "idle") => ctor_pc = "done"

C3_Witness ==
    /\ ctor_pc = "raised"
    /\ ctor_error = "TAVILY_API_KEY is not set"
    /\ env["MODEL_API_KEY"] = "k"
    /\ env["TAVILY_API_KEY"] = None
    /\ clients = <<"ModelProvider">>

(***************************************************************************)
(* C4.  An invocation ends by an exception only after PROCESSING, and then *)
(* its handler holds the PROCESSING block alone: no TRANSCRIPTION, no      *)
(* SUMMARY, no completion signal; and an exception raised in a step is the *)
(* one that leaves assist.                                                 *)
(***************************************************************************)
C4_RaiseAborts ==
    \A s \in Sessions :
        /\ pc[s] = "raised" =>
            /\ exc[s] \in ServiceFailures \cup {"TypeError"}
            /\ events[s] = <<ProcessingBlock>>
        /\ exc[s] # NoExc => pc[s] = "raised"

C4_Witness ==
    \E s, t \in Sessions :
        /\ pc[s] = "raised" /\ exc[s] = "GoogleAPICallError"
        /\ pc[t] = "raised" /\ exc[t] = "TypeError"
        /\ events[s] = <<ProcessingBlock>> /\ events[t] = <<ProcessingBlock>>

(***************************************************************************)
(* C5.  An invocation with an mp4_file attachment that is over, and whose  *)
(* transcription succeeded, has queried the model provider with            *)
(* "Summarize the following text: " followed by its transcript.            *)
(***************************************************************************)
C5_ModelQueried ==
    \A s \in Sessions :
        (Finished(s) /\ ~Falsy(Mp4Of(s)) /\ exc[s] \notin ServiceFailures)
            => \E i \in DOMAIN modelCalls :
                   modelCalls[i].prompt = PromptPrefix \o transcription[s]

(***************************************************************************)
(* C6.  The transcript returned by transcribe_video consists of the top    *)
(* alternative of each result, in the order of the results, with exactly   *)
(* one newline between two neighbours and nothing before the first or      *)
(* after the last; it is empty for no results.                             *)
(***************************************************************************)
Top(results, i) == results[i].alternatives[1].transcript

RECURSIVE Offset(_, _)
Offset(results, i) ==
    IF i = 1 THEN 0
    ELSE Offset(results, i - 1) + Len(Top(results, i - 1)) + 1

IsJoinOf(t, results) ==
    LET n == Len(results)
    IN  /\ n = 0 => t = <<>>
        /\ n > 0 => Len(t) = Offset(results, n) + Len(Top(results, n))
        /\ \A i \in 1..n :
            /\ SubSeq(t, Offset(results, i) + 1,
                         Offset(results, i) + Len(Top(results, i))) = Top(results, i)
            /\ i < n => t[Offset(results, i) + Len(Top(results, i)) + 1] = "\n"

C6_TranscriptJoin ==
    \A s \in Sessions :
        (pc[s] = "summarize" \/ exc[s] = "TypeError")
            => IsJoinOf(transcription[s], response[s])

C6_Witness ==
    \E s \in Sessions :
        /\ pc[s] = "summarize"
        /\ Len(response[s]) = 2
        /\ Len(response[s][1].alternatives) = 2
        /\ transcription[s] = <<"a", "\n", "b">>

(***************************************************************************)
(* C7.  What the caller of summarize_text has been yielded is, at every    *)
(* point, the fragments the provider has streamed so far, in their order;  *)
(* when the generator ends it is all of them.  query_stream is called once *)
(* for each generator that was iterated, with that generator's prompt, and *)
(* not at all for one that was not.                                        *)
(***************************************************************************)
C7_StreamForwarded ==
    /\ Len(yielded) <= Len(streamed)
    /\ yielded = SubSeq(streamed, 1, Len(yielded))
    /\ stream = SubSeq(streamed, Len(yielded) + 1, Len(streamed))
    /\ gen_pc = "suspended" => Len(yielded) >= 1
    /\ gen_pc = "exhausted" => yielded = streamed
    /\ gen_pc \in {"none", "created"} => yielded = <<>>
    /\ Len(modelCalls) = started
    /\ started <= calls
    /\ gen_pc = "none" => started = 0
    /\ gen_pc \in {"suspended", "exhausted"} =>
        modelCalls[Len(modelCalls)].prompt = PromptPrefix \o gen_text

C7_Witness ==
    /\ gen_pc = "exhausted"
    /\ calls = 2
    /\ Len(modelCalls) = 2
    /\ streamed = <<"A", "B">>
    /\ yielded = <<"A", "B">>

(***************************************************************************)
(* C8.  Under any interleaving, what a session's handler has received is   *)
(* what the same invocation sends when it runs alone, a function of its    *)
(* own query; its locals come from its own query, its temporary file is    *)
(* its own, and its one speech request carries what it read itself.        *)
(***************************************************************************)
SoloEvents(q) ==
    IF Get(q.attachments, "mp4_file") \in {None, ""}
    THEN { <<>>, <<ErrorBlock>> }
    ELSE { <<>>, <<ProcessingBlock>> }

C8_SelfContained ==
    \A s \in Sessions :
        /\ events[s] \in SoloEvents(query[s])
        /\ pc[s] \notin {"idle", "assist"} => Len(events[s]) = 1
        /\ mp4_file[s] \in {None, Mp4Of(s)}
        /\ \A t \in Sessions \ {s} :
            audio_path[s] # NoPath => audio_path[t] # audio_path[s]
        /\ audio_path[s] # NoPath =>
            /\ audio_path[s] \in DOMAIN fs
            /\ audio_content[s] = fs[audio_path[s]]
        /\ Cardinality(CallsOf(s)) <= 1
        /\ \A i \in CallsOf(s) : speechCalls[i].content = audio_content[s]

C8_Witness ==
    \E s, t \in Sessions :
        /\ s # t
        /\ pc[s] = "recognize" /\ pc[t] = "recognize"
        /\ mp4_file[s] = "a.mp4" /\ mp4_file[t] = "b.mp4"
        /\ audio_path[s] # audio_path[t]

C10_EmptyValueIsMissing ==
    \A s \in Sessions :
        /\ (pc[s] # "idle" /\ query[s].attachments["mp4_file"] = "")
            => OnlyErrorOutcome(s)
        /\ (\E i \in DOMAIN events[s] : events[s][i].label = "PROCESSING")
            => query[s].attachments["mp4_file"] \notin {Absent, ""}

C10_Witness ==
    \E s, t \in Sessions :
        /\ pc[s] = "returned"
        /\ query[s].attachments["mp4_file"] = ""
        /\ events[s] = <<ErrorBlock>>
        /\ events[t] = <<ProcessingBlock>>

=============================================================================
